---- MODULE Spec2Model ----
(***************************************************************************)
(* A model of sqlite-orm: BaseModel (src/orm.py) over one SQLite table.    *)
(*                                                                         *)
(* The record type modelled is                                             *)
(*     class User(BaseModel): id = INTEGER(); name = TEXT()                *)
(* with `id` optionally marked by PrimaryKey.  SQL statements are kept as  *)
(* the sequence of text pieces the f-strings of orm.py splice together;    *)
(* the engine side lexes that sequence the way SQLite does, so a value is  *)
(* only what the quoting lets through.                                     *)
(***************************************************************************)
EXTENDS Integers, Sequences, FiniteSets, TLC

\* Bounds of the model.
MaxRows == 2
MaxOpen == 1
MaxInterleave == 1

-----------------------------------------------------------------------------
(* Python values.  A text is a sequence of one-character strings.          *)

PyInt(n) == [k |-> "int", n |-> n, v |-> <<>>]
PyStr(t) == [k |-> "str", n |-> 0, v |-> t]

DigitChar == <<"0", "1", "2", "3", "4", "5", "6", "7", "8", "9">>
DigitSet == {DigitChar[d] : d \in 1..10}
DigitVal(c) == (CHOOSE d \in 1..10 : DigitChar[d] = c) - 1

RECURSIVE Decimal(_)
Decimal(n) ==
    IF n < 0 THEN <<"-">> \o Decimal(0 - n)
    ELSE IF n < 10 THEN <<DigitChar[n + 1]>>
    ELSE Decimal(n \div 10) \o <<DigitChar[(n % 10) + 1]>>

\* str(x) as the f-strings and str() calls of orm.py apply it.
Str(x) == IF x.k = "int" THEN Decimal(x.n) ELSE x.v

-----------------------------------------------------------------------------
(* The declaration.                                                        *)

Fields == <<"id", "name">>
FieldType == [id |-> "INTEGER", name |-> "TEXT"]
FieldSet == {Fields[j] : j \in 1..Len(Fields)}
TableName == "User"

-----------------------------------------------------------------------------
(* The SQLite side: lexing of a statement.                                 *)

QuoteChars == {"'", "\""}
Sym(s) == [t |-> "sym", s |-> <<s>>]

\* Pieces outside a quoted literal are one token each.  Inside a literal a
\* doubled quote is one quote character, a single one ends the literal, and
\* everything else, statement text included, is content.  A literal still
\* open at the end of the statement is an error.
RECURSIVE LexFrom(_, _, _, _, _)
LexFrom(items, j, q, acc, toks) ==
    IF j > Len(items) THEN [ok |-> q = "", toks |-> toks]
    ELSE LET c == items[j] IN
         IF q = ""
         THEN IF c \in QuoteChars
              THEN LexFrom(items, j + 1, c, <<>>, toks)
              ELSE LexFrom(items, j + 1, "", <<>>, Append(toks, Sym(c)))
         ELSE IF c = q
              THEN IF j < Len(items) /\ items[j + 1] = q
                   THEN LexFrom(items, j + 2, q, Append(acc, q), toks)
                   ELSE LexFrom(items, j + 1, "", <<>>,
                                Append(toks, [t |-> IF q = "'" THEN "sq" ELSE "dq",
                                              s |-> acc]))
              ELSE LexFrom(items, j + 1, q, Append(acc, c), toks)

Lex(items) == LexFrom(items, 1, "", <<>>, <<>>)

IsLit(tok) == tok.t \in {"sq", "dq"}

\* First position of tok in toks, 0 when absent.
IndexOf(toks, tok) ==
    IF \E j \in 1..Len(toks) : toks[j] = tok
    THEN CHOOSE j \in 1..Len(toks) :
             toks[j] = tok /\ \A m \in 1..(j - 1) : toks[m] # tok
    ELSE 0

\* <name> <op> <literal> (<sep> <name> <op> <literal>)*
PairsOK(toks, ops, sep) ==
    /\ Len(toks) % 4 = 3
    /\ \A j \in 1..Len(toks) :
          CASE j % 4 = 1 -> toks[j].t = "sym"
            [] j % 4 = 2 -> toks[j] \in {Sym(o) : o \in ops}
            [] j % 4 = 3 -> toks[j].t = "sq"
            [] OTHER     -> toks[j] = Sym(sep)

Pairs(toks) ==
    [m \in 1..((Len(toks) + 1) \div 4) |->
        [col |-> toks[4 * m - 3].s[1], lit |-> toks[4 * m - 1].s]]

\* <item> (, <item>)*
ListOK(toks) ==
    /\ Len(toks) % 2 = 1
    /\ \A j \in 1..Len(toks) : (j % 2 = 0) => toks[j] = Sym(",")

ListItems(toks) == [m \in 1..((Len(toks) + 1) \div 2) |-> toks[2 * m - 1]]

-----------------------------------------------------------------------------
(* The SQLite side: storage.                                               *)

IsIntText(t) == Len(t) > 0 /\ \A j \in 1..Len(t) : t[j] \in DigitSet

RECURSIVE IntOf(_)
IntOf(t) ==
    IF Len(t) = 0 THEN 0
    ELSE 10 * IntOf(SubSeq(t, 1, Len(t) - 1)) + DigitVal(t[Len(t)])

\* Column affinity applied to a text value on its way into a column or into a
\* comparison with it: an INTEGER column turns a well-formed integer text into
\* an integer, all else stays text.
Affinity(type, t) ==
    IF type = "INTEGER" /\ IsIntText(t) THEN PyInt(IntOf(t)) ELSE PyStr(t)

ColIndex(cols, name) == CHOOSE j \in 1..Len(cols) : cols[j].name = name
HasCol(cols, name) == \E j \in 1..Len(cols) : cols[j].name = name
ColType(cols, name) == cols[ColIndex(cols, name)].type

\* The column that is the table's rowid (INTEGER PRIMARY KEY), 0 when none.
RowidCol(cols) ==
    IF \E j \in 1..Len(cols) : cols[j].pk /\ cols[j].type = "INTEGER"
    THEN CHOOSE j \in 1..Len(cols) : cols[j].pk /\ cols[j].type = "INTEGER"
    ELSE 0

PkCols(cols) == {j \in 1..Len(cols) : cols[j].pk}

\* Rows come back in rowid order: by the key when it is the rowid, in
\* insertion order otherwise.
RECURSIVE InsertSorted(_, _, _)
InsertSorted(rows, row, c) ==
    IF rows = <<>> THEN <<row>>
    ELSE IF row[c].n < rows[1][c].n THEN <<row>> \o rows
    ELSE <<rows[1]>> \o InsertSorted(Tail(rows), row, c)

RECURSIVE SortRows(_, _)
SortRows(rows, c) ==
    IF rows = <<>> THEN <<>>
    ELSE InsertSorted(SortRows(Tail(rows), c), rows[1], c)

Stored(cols, rows) ==
    IF RowidCol(cols) = 0 THEN rows ELSE SortRows(rows, RowidCol(cols))

\* "datatype mismatch": a rowid that is no integer.
TypesOK(cols, rows) ==
    RowidCol(cols) # 0 =>
        \A j \in 1..Len(rows) : rows[j][RowidCol(cols)].k = "int"

\* "UNIQUE constraint failed".
UniqueOK(cols, rows) ==
    \A c \in PkCols(cols) : \A j, m \in 1..Len(rows) :
        rows[j][c] = rows[m][c] => j = m

\* column == 'literal'
SqlEq(cols, row, cond) ==
    row[ColIndex(cols, cond.col)] = Affinity(ColType(cols, cond.col), cond.lit)

Matches(cols, row, conds) ==
    \A m \in 1..Len(conds) : SqlEq(cols, row, conds[m])

CondsKnown(cols, conds) == \A m \in 1..Len(conds) : HasCol(cols, conds[m].col)

RECURSIVE Assign(_, _, _)
Assign(cols, row, sets) ==
    IF sets = <<>> THEN row
    ELSE Assign(cols,
                [row EXCEPT ![ColIndex(cols, sets[1].col)] =
                    Affinity(ColType(cols, sets[1].col), sets[1].lit)],
                Tail(sets))

-----------------------------------------------------------------------------
(* The SQLite side: statements.  A database d is [exists, cols, rows]: is  *)
(* the table there, its columns as CREATE TABLE gave them, and its rows in *)
(* rowid order, each a tuple in column order.                              *)

NoDb == [exists |-> FALSE, cols |-> <<>>, rows |-> <<>>]
PyNone == [k |-> "none", n |-> 0, v |-> <<>>]

Failed(d, status) == [status |-> status, db |-> d, count |-> 0, out |-> <<>>]
Done(d, count, out) == [status |-> "ok", db |-> d, count |-> count, out |-> out]

AllSyms(toks) == \A j \in 1..Len(toks) : toks[j].t = "sym"
Names(toks) == [j \in 1..Len(toks) |-> toks[j].s[1]]
OnTable(d, tok) == d.exists /\ tok = Sym(TableName)

\* <name> <type> [PRIMARY KEY] (, <name> <type> [PRIMARY KEY])*
RECURSIVE ColDefs(_, _)
ColDefs(toks, acc) ==
    IF Len(toks) < 2 \/ ~AllSyms(toks) THEN [ok |-> FALSE, cols |-> <<>>]
    ELSE LET pk   == Len(toks) > 2 /\ toks[3] = Sym("PRIMARY KEY")
             rest == SubSeq(toks, IF pk THEN 4 ELSE 3, Len(toks))
             cols == Append(acc, [name |-> toks[1].s[1], type |-> toks[2].s[1],
                                  pk |-> pk])
         IN  IF rest = <<>> THEN [ok |-> TRUE, cols |-> cols]
             ELSE IF rest[1] = Sym(",") THEN ColDefs(Tail(rest), cols)
             ELSE [ok |-> FALSE, cols |-> <<>>]

RunCreate(d, toks) ==
    LET n    == Len(toks)
        defs == ColDefs(SubSeq(toks, 4, n - 1), <<>>)
    IN  IF n < 6 \/ toks[3] # Sym("(") \/ toks[n] # Sym(")") \/ ~defs.ok
        THEN Failed(d, "OperationalError")
        ELSE IF d.exists THEN Failed(d, "OperationalError")
        ELSE Done([exists |-> TRUE, cols |-> defs.cols, rows |-> <<>>], 0, <<>>)

RunInsert(d, toks) ==
    LET n     == Len(toks)
        p     == IndexOf(toks, Sym(") VALUES ("))
        names == SubSeq(toks, 4, p - 1)
        vals  == SubSeq(toks, p + 1, n - 1)
    IN  IF \/ p < 5 \/ p + 2 > n
           \/ toks[3] # Sym("(") \/ toks[n] # Sym(")")
           \/ ~ListOK(names) \/ ~AllSyms(names)
           \/ ~ListOK(vals) \/ \E j \in 1..Len(ListItems(vals)) : ~IsLit(ListItems(vals)[j])
        THEN Failed(d, "OperationalError")
        ELSE LET ns == Names(ListItems(names))
                 vs == ListItems(vals)
                 at(c) == IF \E j \in 1..Len(ns) : ns[j] = d.cols[c].name
                          THEN LET j == CHOOSE j \in 1..Len(ns) : ns[j] = d.cols[c].name
                               IN  Affinity(d.cols[c].type, vs[j].s)
                          ELSE PyNone
                 row  == [c \in 1..Len(d.cols) |-> at(c)]
                 rows == Append(d.rows, row)
             IN  IF \/ ~OnTable(d, toks[2])
                    \/ Len(ns) # Len(vs)
                    \/ \E j \in 1..Len(ns) : ~HasCol(d.cols, ns[j])
                    \/ \E j, m \in 1..Len(ns) : j # m /\ ns[j] = ns[m]
                 THEN Failed(d, "OperationalError")
                 ELSE IF ~TypesOK(d.cols, rows) \/ ~UniqueOK(d.cols, rows)
                 THEN Failed(d, "IntegrityError")
                 ELSE Done([d EXCEPT !.rows = Stored(d.cols, rows)], 1, <<>>)

RunDelete(d, toks) ==
    LET conds == SubSeq(toks, 4, Len(toks)) IN
    IF Len(toks) < 4 \/ toks[3] # Sym("WHERE") \/ ~PairsOK(conds, {"==", "="}, "AND")
    THEN Failed(d, "OperationalError")
    ELSE IF ~OnTable(d, toks[2]) \/ ~CondsKnown(d.cols, Pairs(conds))
    THEN Failed(d, "OperationalError")
    ELSE LET keep == SelectSeq(d.rows, LAMBDA r : ~Matches(d.cols, r, Pairs(conds)))
         IN  Done([d EXCEPT !.rows = keep], Len(d.rows) - Len(keep), <<>>)

RunUpdate(d, toks) ==
    LET n     == Len(toks)
        p     == IndexOf(toks, Sym("WHERE"))
        sets  == SubSeq(toks, 4, IF p = 0 THEN n ELSE p - 1)
        conds == IF p = 0 THEN <<>> ELSE SubSeq(toks, p + 1, n)
    IN  IF \/ n < 4 \/ toks[3] # Sym("SET")
           \/ ~PairsOK(sets, {"="}, ",")
           \/ (p # 0 /\ ~PairsOK(conds, {"==", "="}, "AND"))
        THEN Failed(d, "OperationalError")
        ELSE IF \/ ~OnTable(d, toks[2])
                \/ ~CondsKnown(d.cols, Pairs(sets))
                \/ ~CondsKnown(d.cols, Pairs(conds))
        THEN Failed(d, "OperationalError")
        ELSE LET hit(r) == Matches(d.cols, r, Pairs(conds))
                 rows == [j \in 1..Len(d.rows) |->
                             IF hit(d.rows[j])
                             THEN Assign(d.cols, d.rows[j], Pairs(sets))
                             ELSE d.rows[j]]
             IN  IF ~TypesOK(d.cols, rows) \/ ~UniqueOK(d.cols, rows)
                 THEN Failed(d, "IntegrityError")
                 ELSE Done([d EXCEPT !.rows = Stored(d.cols, rows)],
                           Len(SelectSeq(d.rows, hit)), <<>>)

RunSelect(d, toks) ==
    LET n     == Len(toks)
        f     == IndexOf(toks, Sym("FROM"))
        what  == SubSeq(toks, 2, f - 1)
        conds == SubSeq(toks, f + 3, n)
        star  == what = <<Sym("*")>>
    IN  IF \/ f < 3 \/ f + 1 > n
           \/ ~ListOK(what) \/ ~AllSyms(what)
           \/ (n > f + 1 /\ (toks[f + 2] # Sym("WHERE")
                              \/ ~PairsOK(conds, {"==", "="}, "AND")))
        THEN Failed(d, "OperationalError")
        ELSE LET ns == Names(ListItems(what))
                 cs == IF n > f + 1 THEN Pairs(conds) ELSE <<>>
             IN  IF \/ ~OnTable(d, toks[f + 1])
                    \/ (~star /\ \E j \in 1..Len(ns) : ~HasCol(d.cols, ns[j]))
                    \/ ~CondsKnown(d.cols, cs)
                 THEN Failed(d, "OperationalError")
                 ELSE LET hits == SelectSeq(d.rows, LAMBDA r : Matches(d.cols, r, cs))
                          proj(r) == IF star THEN r
                                     ELSE [j \in 1..Len(ns) |-> r[ColIndex(d.cols, ns[j])]]
                      IN  Done(d, 0, [j \in 1..Len(hits) |-> proj(hits[j])])

\* cursor.execute(query) on database d.
Run(d, query) ==
    LET lx == Lex(query) IN
    IF ~lx.ok \/ Len(lx.toks) < 2 THEN Failed(d, "OperationalError")
    ELSE CASE lx.toks[1] = Sym("CREATE TABLE") -> RunCreate(d, lx.toks)
           [] lx.toks[1] = Sym("INSERT INTO")  -> RunInsert(d, lx.toks)
           [] lx.toks[1] = Sym("DELETE FROM")  -> RunDelete(d, lx.toks)
           [] lx.toks[1] = Sym("UPDATE")       -> RunUpdate(d, lx.toks)
           [] lx.toks[1] = Sym("SELECT")       -> RunSelect(d, lx.toks)
           [] OTHER                            -> Failed(d, "OperationalError")

-----------------------------------------------------------------------------
(* The Python side: BaseModel.                                             *)

VARIABLES
    primary_key,  \* cls._primary_key: a field name, or "" for None
    db,           \* the database file
    open_conns,   \* connections opened and not closed
    pc,           \* where the caller is: idle, delete, update, returned
    call,         \* the public operation running, with its arguments
    fetched,      \* `records` of get: what get_all returned
    records,      \* `records` of delete and update: what get returned
    pos,          \* the record the for loop of delete or update is at
    result,       \* what the operation returned or raised
    io,           \* what the operation did outside the process, in order
    rowcounts,    \* rows affected by each statement of the loop
    others        \* statements of another caller run during the operation

vars == <<primary_key, db, open_conns, pc, call, fetched, records, pos,
          result, io, rowcounts, others>>

\* A keyword-argument mapping is the sequence of its (key, val) pairs, in the
\* order the caller wrote them.
Keys(kwargs) == [j \in 1..Len(kwargs) |-> kwargs[j].key]
KeySet(kwargs) == {kwargs[j].key : j \in 1..Len(kwargs)}
HasKey(kwargs, key) == key \in KeySet(kwargs)
ValueOf(kwargs, key) ==
    kwargs[CHOOSE j \in 1..Len(kwargs) : kwargs[j].key = key].val

RECURSIVE Join(_, _)
Join(parts, sep) ==
    IF parts = <<>> THEN <<>>
    ELSE IF Len(parts) = 1 THEN parts[1]
    ELSE parts[1] \o <<sep>> \o Join(Tail(parts), sep)

Min(a, b) == IF a < b THEN a ELSE b

\* {k: v for k, v in zip(cls._fields.keys(), args[0])}
ToDict(row) ==
    [f \in {Fields[j] : j \in 1..Min(Len(Fields), Len(row))} |->
        row[CHOOSE j \in 1..Len(Fields) : Fields[j] = f]]

ToDicts(rows) == [j \in 1..Len(rows) |-> ToDict(rows[j])]

\* The predicates callers pass to get, delete and update.
Conditions == {"all", "id_is_1", "name_is_a"}
Holds(condition, record) ==
    CASE condition = "all"       -> TRUE
      [] condition = "id_is_1"   -> record["id"] = PyInt(1)
      [] condition = "name_is_a" -> record["name"] = PyStr(<<"a">>)

CreateQuery ==
    <<"CREATE TABLE", TableName, "(">>
    \o Join([j \in 1..Len(Fields) |->
                <<Fields[j], FieldType[Fields[j]]>>
                \o (IF Fields[j] = primary_key THEN <<"PRIMARY KEY">> ELSE <<>>)],
            ",")
    \o <<")">>

\* The columns in declaration order, the values in the caller's.
InsertQueryDeclared(kwargs) ==
    <<"INSERT INTO", TableName, "(">>
    \o Join([j \in 1..Len(Fields) |-> <<Fields[j]>>], ",")
    \o <<") VALUES (">>
    \o Join([j \in 1..Len(kwargs) |-> <<"\"">> \o Str(kwargs[j].val) \o <<"\"">>],
            ",")
    \o <<")">>

InsertQuery(kwargs) ==
    <<"INSERT INTO", TableName, "(">>
    \o Join([j \in 1..Len(kwargs) |-> <<kwargs[j].key>>], ",")
    \o <<") VALUES (">>
    \o Join([j \in 1..Len(kwargs) |-> <<"\"">> \o Str(kwargs[j].val) \o <<"\"">>],
            ",")
    \o <<")">>

\* Only the first field compared.
WhereOfFirst(record) ==
    <<Fields[1], "==", "'">> \o Str(record[Fields[1]]) \o <<"'">>

WhereOf(record) ==
    Join([j \in 1..Len(Fields) |->
             <<Fields[j], "==", "'">> \o Str(record[Fields[j]]) \o <<"'">>],
         "AND")

\* The DELETE keyed on the first field alone.
DeleteQueryByFirst(record) ==
    <<"DELETE FROM", TableName, "WHERE">>
    \o <<Fields[1], "==", "'">> \o Str(record[Fields[1]]) \o <<"'">>

DeleteQuery(record) == <<"DELETE FROM", TableName, "WHERE">> \o WhereOf(record)

\* kwargs.get(column): a field not supplied is set to None.
SetOfGet(record, kwargs) ==
    Join([j \in 1..Len(Fields) |->
             <<Fields[j], "=", "'">>
             \o (IF HasKey(kwargs, Fields[j]) THEN Str(ValueOf(kwargs, Fields[j]))
                 ELSE <<"N", "o", "n", "e">>)
             \o <<"'">>],
         ",")

SetOf(record, kwargs) ==
    Join([j \in 1..Len(Fields) |->
             <<Fields[j], "=", "'">>
             \o Str(IF HasKey(kwargs, Fields[j]) THEN ValueOf(kwargs, Fields[j])
                    ELSE record[Fields[j]])
             \o <<"'">>],
         ",")

UpdateQuery(record, kwargs) ==
    <<"UPDATE", TableName, "SET">> \o SetOf(record, kwargs)
    \o <<"WHERE">> \o WhereOf(record)

SelectAllQuery == <<"SELECT", "*", "FROM", TableName>>

SelectByQuery(column, condition) ==
    <<"SELECT", "*", "FROM", TableName, "WHERE", column>> \o condition

NoCall == [op |-> "", condition |-> "", kwargs |-> <<>>, column |-> "",
           query |-> <<>>]
NoResult == [status |-> "", msg |-> "", names |-> {}, value |-> <<>>]

Returned(value) == [status |-> "ok", msg |-> "", names |-> {}, value |-> value]
Raised(status) == [status |-> status, msg |-> "", names |-> {}, value |-> <<>>]
ValueError(msg, names) ==
    [status |-> "ValueError", msg |-> msg, names |-> names, value |-> <<>>]

\* execute: the configuration is read, a connection opened, the statement
\* run and committed, and the connection closed whether or not it raised.
ExecuteIo(query, r) ==
    <<"config", "connect", query[1]>>
    \o (IF r.status = "ok" THEN <<"commit">> ELSE <<>>)
    \o <<"close">>

\* get_all and get_by_column: the same without a commit.
FetchIo(query) == <<"config", "connect", query[1], "close">>

\* run_query: nothing after a statement that raises is run.
RunQueryIo(query, r) ==
    <<"config", "connect", query[1]>>
    \o (IF r.status = "ok" THEN <<"commit", "close">> ELSE <<>>)

FilterRejects(rs, condition) == SelectSeq(rs, LAMBDA r : ~Holds(condition, r))
Filter(rs, condition) == SelectSeq(rs, LAMBDA r : Holds(condition, r))

Init ==
    /\ primary_key \in {"", "id"}
    /\ db = NoDb
    /\ open_conns = 0
    /\ pc = "idle"
    /\ call = NoCall
    /\ fetched = <<>>
    /\ records = <<>>
    /\ pos = 0
    /\ result = NoResult
    /\ io = <<>>
    /\ rowcounts = <<>>
    /\ others = <<>>

Finish(r) ==
    /\ pc' = "returned"
    /\ result' = r

CreateTable ==
    /\ pc = "idle"
    /\ LET r == Run(db, CreateQuery) IN
        /\ db' = r.db
        /\ io' = ExecuteIo(CreateQuery, r)
        /\ Finish(IF r.status = "ok" THEN Returned(<<>>) ELSE Raised(r.status))
    /\ call' = [NoCall EXCEPT !.op = "create_table"]
    /\ UNCHANGED <<primary_key, open_conns, fetched, records, pos, rowcounts, others>>

\* The database name is looked up before the keys are checked.
InsertLooksUpFirst(kwargs) ==
    /\ pc = "idle"
    /\ call' = [NoCall EXCEPT !.op = "insert", !.kwargs = kwargs]
    /\ IF KeySet(kwargs) = FieldSet
       THEN LET r == Run(db, InsertQuery(kwargs)) IN
            /\ Len(r.db.rows) <= MaxRows
            /\ db' = r.db
            /\ io' = ExecuteIo(InsertQuery(kwargs), r)
            /\ Finish(IF r.status = "ok" THEN Returned(<<>>) ELSE Raised(r.status))
       ELSE IF Len(kwargs) > Len(Fields)
       THEN /\ Finish(ValueError("extra fields", KeySet(kwargs) \ FieldSet))
            /\ io' = <<"config">>
            /\ UNCHANGED db
       ELSE /\ Finish(ValueError("missing fields", FieldSet \ KeySet(kwargs)))
            /\ io' = <<"config">>
            /\ UNCHANGED db
    /\ UNCHANGED <<primary_key, open_conns, fetched, records, pos, rowcounts, others>>

Insert(kwargs) ==
    /\ pc = "idle"
    /\ call' = [NoCall EXCEPT !.op = "insert", !.kwargs = kwargs]
    /\ IF KeySet(kwargs) = FieldSet
       THEN LET r == Run(db, InsertQuery(kwargs)) IN
            /\ Len(r.db.rows) <= MaxRows
            /\ db' = r.db
            /\ io' = ExecuteIo(InsertQuery(kwargs), r)
            /\ Finish(IF r.status = "ok" THEN Returned(<<>>) ELSE Raised(r.status))
       ELSE IF Len(kwargs) > Len(Fields)
       THEN /\ Finish(ValueError("extra fields", KeySet(kwargs) \ FieldSet))
            /\ UNCHANGED <<db, io>>
       ELSE /\ Finish(ValueError("missing fields", FieldSet \ KeySet(kwargs)))
            /\ UNCHANGED <<db, io>>
    /\ UNCHANGED <<primary_key, open_conns, fetched, records, pos, rowcounts, others>>

\* records = cls.get(condition), and the loop over them when there are any.
Begin(op, condition, kwargs) ==
    /\ pc = "idle"
    /\ call' = [NoCall EXCEPT !.op = op, !.condition = condition, !.kwargs = kwargs]
    /\ io' = FetchIo(SelectAllQuery)
    /\ LET r == Run(db, SelectAllQuery)
           found == Filter(ToDicts(r.out), condition)
       IN  IF r.status # "ok"
           THEN /\ Finish(Raised(r.status))
                /\ UNCHANGED <<fetched, records, pos>>
           ELSE /\ fetched' = ToDicts(r.out)
                /\ records' = found
                /\ IF found = <<>>
                   THEN Finish(Returned(<<>>)) /\ pos' = 0
                   ELSE pc' = op /\ pos' = 1 /\ UNCHANGED result
    /\ UNCHANGED <<primary_key, db, open_conns, rowcounts, others>>

\* A statement that raises is passed over while records remain.
StepPassesOver(op, query) ==
    /\ pc = op
    /\ LET r == Run(db, query) IN
        /\ db' = r.db
        /\ io' = io \o ExecuteIo(query, r)
        /\ rowcounts' = Append(rowcounts, r.count)
        /\ IF pos = Len(records)
           THEN /\ Finish(IF r.status = "ok" THEN Returned(<<>>) ELSE Raised(r.status))
                /\ UNCHANGED pos
           ELSE pos' = pos + 1 /\ UNCHANGED <<pc, result>>
    /\ UNCHANGED <<primary_key, open_conns, call, fetched, records, others>>

\* One turn of the loop: the statement for records[pos].
Step(op, query) ==
    /\ pc = op
    /\ LET r == Run(db, query) IN
        /\ db' = r.db
        /\ io' = io \o ExecuteIo(query, r)
        /\ rowcounts' = Append(rowcounts, r.count)
        /\ IF r.status # "ok"
           THEN Finish(Raised(r.status)) /\ UNCHANGED pos
           ELSE IF pos = Len(records)
           THEN Finish(Returned(<<>>)) /\ UNCHANGED pos
           ELSE pos' = pos + 1 /\ UNCHANGED <<pc, result>>
    /\ UNCHANGED <<primary_key, open_conns, call, fetched, records, others>>

DeleteBegin(condition) == Begin("delete", condition, <<>>)
DeleteStep == Step("delete", DeleteQuery(records[pos]))
UpdateBegin(condition, kwargs) == Begin("update", condition, kwargs)
UpdateStep == Step("update", UpdateQuery(records[pos], call.kwargs))

GetAll ==
    /\ pc = "idle"
    /\ call' = [NoCall EXCEPT !.op = "get_all"]
    /\ io' = FetchIo(SelectAllQuery)
    /\ LET r == Run(db, SelectAllQuery) IN
        Finish(IF r.status = "ok" THEN Returned(ToDicts(r.out)) ELSE Raised(r.status))
    /\ UNCHANGED <<primary_key, db, open_conns, fetched, records, pos, rowcounts, others>>

Get(condition) ==
    /\ pc = "idle"
    /\ call' = [NoCall EXCEPT !.op = "get", !.condition = condition]
    /\ io' = FetchIo(SelectAllQuery)
    /\ LET r == Run(db, SelectAllQuery) IN
        IF r.status = "ok"
        THEN /\ fetched' = ToDicts(r.out)
             /\ Finish(Returned(Filter(ToDicts(r.out), condition)))
        ELSE /\ Finish(Raised(r.status))
             /\ UNCHANGED fetched
    /\ UNCHANGED <<primary_key, db, open_conns, records, pos, rowcounts, others>>

GetByColumn(column, condition) ==
    /\ pc = "idle"
    /\ call' = [NoCall EXCEPT !.op = "get_by_column", !.column = column,
                              !.query = condition]
    /\ IF column \in FieldSet
       THEN LET query == SelectByQuery(column, condition)
                r == Run(db, query)
            IN  /\ io' = FetchIo(query)
                /\ Finish(IF r.status = "ok" THEN Returned(ToDicts(r.out))
                          ELSE Raised(r.status))
       ELSE /\ Finish(ValueError("unknown column", {column}))
            /\ UNCHANGED io
    /\ UNCHANGED <<primary_key, db, open_conns, fetched, records, pos, rowcounts, others>>

RunQuery(query) ==
    /\ pc = "idle"
    /\ call' = [NoCall EXCEPT !.op = "run_query", !.query = query]
    /\ LET r == Run(db, query) IN
        /\ io' = RunQueryIo(query, r)
        /\ IF r.status = "ok"
           THEN /\ Finish(Returned(ToDicts(r.out)))
                /\ UNCHANGED open_conns
           ELSE /\ open_conns < MaxOpen
                /\ open_conns' = open_conns + 1
                /\ Finish(Raised(r.status))
    /\ UNCHANGED <<primary_key, db, fetched, records, pos, rowcounts, others>>

\* The caller takes the result and is free for its next call.
Return ==
    /\ pc = "returned"
    /\ pc' = "idle"
    /\ call' = NoCall
    /\ result' = NoResult
    /\ fetched' = <<>>
    /\ records' = <<>>
    /\ pos' = 0
    /\ io' = <<>>
    /\ rowcounts' = <<>>
    /\ others' = <<>>
    /\ UNCHANGED <<primary_key, db, open_conns>>

-----------------------------------------------------------------------------
(* The inputs callers supply.                                              *)

IdInputs == {PyInt(1), PyStr(<<"2">>), PyStr(<<"\"">>)}
NameInputs == {PyStr(<<"a">>), PyStr(<<"b">>), PyStr(<<"'", "'">>)}

GoodInserts ==
    UNION {{ <<[key |-> "id", val |-> x], [key |-> "name", val |-> y]>>,
             <<[key |-> "name", val |-> y], [key |-> "id", val |-> x]>> } :
           <<x, y>> \in IdInputs \X NameInputs}

BadKeys == { <<"id">>, <<"id", "zzz">>, <<"zzz", "yyy">>,
             <<"id", "name", "zzz">>, <<"id", "zzz", "yyy">> }
BadInserts == {[j \in 1..Len(ks) |-> [key |-> ks[j], val |-> PyInt(1)]] : ks \in BadKeys}

Updates ==
    { <<[key |-> "name", val |-> PyStr(<<"b">>)]>>,
      <<[key |-> "name", val |-> PyStr(<<"'", "'">>)]>>,
      <<[key |-> "name", val |-> PyStr(<<"a">>)], [key |-> "id", val |-> PyInt(1)]>> }

Columns == {"id", "zzz"}
ColumnConditions == { <<"==", "'", "1", "'">>, <<"LIKE">> }

RawQueries ==
    { SelectAllQuery,
      <<"SELECT", "id", "FROM", TableName>>,
      <<"SELECT", "id", ",", "name", ",", "id", "FROM", TableName>>,
      <<"SELEC", "*", "FROM", TableName>> }

Next ==
    \/ CreateTable
    \/ \E kwargs \in GoodInserts \cup BadInserts : Insert(kwargs)
    \/ \E c \in Conditions : DeleteBegin(c)
    \/ DeleteStep
    \/ \E c \in Conditions, kwargs \in Updates : UpdateBegin(c, kwargs)
    \/ UpdateStep
    \/ GetAll
    \/ \E c \in Conditions : Get(c)
    \/ \E column \in Columns, c \in ColumnConditions : GetByColumn(column, c)
    \/ \E query \in RawQueries : RunQuery(query)
    \/ Return

Spec == Init /\ [][Next]_vars
-----------------------------------------------------------------------------
(* A second caller of the same class on the same database file.  Each of   *)
(* its statements is one step; those that fall between the get of the      *)
(* first caller's delete and that delete's return are kept in `others`,    *)
(* with the number of DELETE statements the first caller had run by then.  *)

\* Another caller's insert(**kwargs): one INSERT, committed.
OtherInsert(kwargs) ==
    /\ pc = "delete"
    /\ Len(others) < MaxInterleave
    /\ KeySet(kwargs) = FieldSet
    /\ LET r == Run(db, InsertQuery(kwargs)) IN
        /\ r.status = "ok"
        /\ Len(r.db.rows) <= MaxRows
        /\ db' = r.db
        /\ others' = Append(others,
               [op |-> "insert",
                row |-> [f \in FieldSet |->
                            Affinity(FieldType[f], Str(ValueOf(kwargs, f)))],
                at |-> Len(rowcounts)])
    /\ UNCHANGED <<primary_key, open_conns, pc, call, fetched, records, pos,
                   result, io, rowcounts>>

\* One DELETE of another caller's delete(condition), for a record it read.
OtherDelete(j) ==
    /\ pc = "delete"
    /\ Len(others) < MaxInterleave
    /\ j \in 1..Len(db.rows)
    /\ LET record == ToDict(db.rows[j])
           r == Run(db, DeleteQuery(record))
       IN  /\ r.status = "ok"
           /\ r.count > 0
           /\ db' = r.db
           /\ others' = Append(others,
                  [op |-> "delete", row |-> record, at |-> Len(rowcounts)])
    /\ UNCHANGED <<primary_key, open_conns, pc, call, fetched, records, pos,
                   result, io, rowcounts>>

ConcInserts ==
    { <<[key |-> "id", val |-> x], [key |-> "name", val |-> y]>> :
      <<x, y>> \in {PyInt(1), PyStr(<<"2">>)} \X {PyStr(<<"a">>), PyStr(<<"'", "'">>)} }

NextConc ==
    \/ CreateTable
    \/ \E kwargs \in ConcInserts : Insert(kwargs)
    \/ \E c \in Conditions : DeleteBegin(c)
    \/ DeleteStep
    \/ \E kwargs \in ConcInserts : OtherInsert(kwargs)
    \/ \E j \in 1..MaxRows : OtherDelete(j)
    \/ Return

SpecConc == Init /\ [][NextConc]_vars

-----------------------------------------------------------------------------
(* Claims.                                                                 *)

Count(seq, x) == Cardinality({j \in 1..Len(seq) : seq[j] = x})
SameBag(a, b) ==
    /\ Len(a) = Len(b)
    /\ \A j \in 1..Len(a) : Count(a, a[j]) = Count(b, a[j])
Table == ToDicts(db.rows)

\* C1: an insert whose key set K differs from the declared fields F fails
\* with "extra fields" naming K \ F when K is a strict superset of F, and
\* with "missing fields" naming F \ K in every other case.
C1_InsertClassifiesKeys ==
    (pc = "returned" /\ call.op = "insert" /\ KeySet(call.kwargs) # FieldSet) =>
        /\ result.status = "ValueError"
        /\ IF FieldSet \subseteq KeySet(call.kwargs)
           THEN result.msg = "extra fields"
                /\ result.names = KeySet(call.kwargs) \ FieldSet
           ELSE result.msg = "missing fields"
                /\ result.names = FieldSet \ KeySet(call.kwargs)

\* C2: when a public operation has returned or raised, every connection it
\* opened is closed again, and no connection is left open between calls.
C2_ConnectionsReleased ==
    /\ open_conns = 0
    /\ pc = "returned" => Count(io, "connect") = Count(io, "close")

\* C5: a row the engine returns with fewer or more columns than there are
\* declared fields makes run_query fail; it never returns records built
\* from such rows.
C5_ShapeMismatchFails ==
    (pc = "returned" /\ call.op = "run_query") =>
        LET r == Run(db, call.query) IN
        (r.status = "ok" /\ \E j \in 1..Len(r.out) : Len(r.out[j]) # Len(Fields))
            => result.status # "ok"

\* C7: an insert whose key set differs from the declared fields and a
\* get_by_column on an undeclared column raise ValueError without reading
\* the configuration, opening a connection or issuing SQL, and leave the
\* table as it was.
C7_ValidationBeforeStorage ==
    [][(/\ pc = "idle" /\ pc' = "returned"
        /\ \/ call'.op = "insert" /\ KeySet(call'.kwargs) # FieldSet
           \/ call'.op = "get_by_column" /\ call'.column \notin FieldSet)
       => (/\ result'.status = "ValueError"
           /\ io' = <<>>
           /\ db' = db
           /\ open_conns' = open_conns)]_vars

C7_Witness ==
    /\ pc = "returned" /\ call.op = "insert"
    /\ result.status = "ValueError"
    /\ Len(db.rows) = MaxRows

\* C8: get(predicate) issues the one SELECT of get_all and returns the
\* records of that result for which the predicate holds, in get_all's order,
\* leaving the table as read; on a table with no rows get_all and get return
\* an empty sequence.
C8_GetFilters ==
    /\ (pc = "returned" /\ call.op = "get" /\ result.status = "ok") =>
          LET kept == {j \in 1..Len(fetched) : Holds(call.condition, fetched[j])} IN
          /\ io = <<"config", "connect", "SELECT", "close">>
          /\ fetched = Table
          /\ Len(result.value) = Cardinality(kept)
          /\ \A j \in kept :
                result.value[Cardinality({m \in kept : m <= j})] = fetched[j]
    /\ (pc = "returned" /\ call.op \in {"get", "get_all"}
        /\ db.exists /\ db.rows = <<>>) =>
          result.status = "ok" /\ result.value = <<>>

C8_Witness ==
    /\ pc = "returned" /\ call.op = "get" /\ result.status = "ok"
    /\ Len(fetched) = 2 /\ result.value = <<fetched[2]>>

NoChar(t, c) == \A j \in 1..Len(t) : t[j] # c
QuoteFree(record) == \A f \in DOMAIN record : NoChar(Str(record[f]), "'")
AllQuoteFree(rs) == \A j \in 1..Len(rs) : QuoteFree(rs[j])
ValuesFree(kwargs, c) == \A j \in 1..Len(kwargs) : NoChar(Str(kwargs[j].val), c)

\* A supplied value as the column keeps it.
StoredAs(f, x) == Affinity(FieldType[f], Str(x))

WithoutAt(seq, p) == SubSeq(seq, 1, p - 1) \o SubSeq(seq, p + 1, Len(seq))

InsertCall ==
    /\ pc = "idle" /\ pc' = "returned"
    /\ call'.op = "insert" /\ KeySet(call'.kwargs) = FieldSet
    /\ db.exists

AddsRow(kwargs) ==
    /\ result'.status = "ok"
    /\ \E p \in 1..Len(db'.rows) :
          /\ ToDict(db'.rows[p]) = [f \in FieldSet |-> StoredAs(f, ValueOf(kwargs, f))]
          /\ WithoutAt(db'.rows, p) = db.rows

\* The engine takes the INSERT: no value breaks out of its double quotes,
\* and a declared primary key gets an integer that no row has yet.
Accepted(kwargs) ==
    /\ ValuesFree(kwargs, "\"")
    /\ primary_key # "" =>
          LET key == StoredAs(primary_key, ValueOf(kwargs, primary_key)) IN
          /\ key.k = "int"
          /\ \A j \in 1..Len(db.rows) : ToDict(db.rows[j])[primary_key] # key

\* C6 as stated: an insert whose key set equals the declared fields, in any
\* key order, succeeds and adds exactly one row, which get_all gives back
\* with every field at the value supplied for it (as stored); the rows
\* already there are unchanged.
C6_InsertRoundTrips == [][InsertCall => AddsRow(call'.kwargs)]_vars

\* C6 as amended: it does so when the engine accepts the statement, and
\* otherwise raises the engine's error and leaves the table unchanged.
C6_InsertRoundTripsWhenAccepted ==
    [][InsertCall =>
        IF Accepted(call'.kwargs) THEN AddsRow(call'.kwargs)
        ELSE /\ result'.status \in {"OperationalError", "IntegrityError"}
             /\ db' = db]_vars

C6_Witness ==
    /\ pc = "returned" /\ call.op = "insert" /\ result.status = "ok"
    /\ Keys(call.kwargs) = <<"name", "id">>
    /\ Len(db.rows) = 2

Unmatched(rs, condition) == SelectSeq(rs, LAMBDA r : ~Holds(condition, r))

DeleteReturned == pc = "returned" /\ call.op = "delete" /\ db.exists

DeleteDone ==
    /\ Table = Unmatched(fetched, call.condition)
    /\ Filter(Table, call.condition) = <<>>
    /\ records = <<>> => (Count(io, "DELETE FROM") = 0 /\ Table = fetched)

\* C3 as stated: with a single caller, delete(predicate) leaves exactly the
\* rows for which the predicate is false, duplicates of a matching row
\* removed with it; a delete that finds no match (as a second one with the
\* same predicate does) issues no DELETE and leaves the table unchanged.
C3_DeleteRemovesMatches == DeleteReturned => DeleteDone

\* C3 as amended: it does so when no value of a matching record has a
\* single quote in its text.
C3_DeleteRemovesQuoteFreeMatches ==
    (DeleteReturned /\ AllQuoteFree(records)) => (result.status = "ok" /\ DeleteDone)

C3_Witness ==
    /\ DeleteReturned /\ result.status = "ok"
    /\ Len(records) = 2 /\ records[1] = records[2]
    /\ rowcounts = <<2, 0>>

Upd(r, kwargs) ==
    [f \in DOMAIN r |->
        IF HasKey(kwargs, f) THEN StoredAs(f, ValueOf(kwargs, f)) ELSE r[f]]

UpdateReturned == pc = "returned" /\ call.op = "update" /\ result.status = "ok"

UpdateDone ==
    LET want == [j \in 1..Len(fetched) |->
                    IF Holds(call.condition, fetched[j])
                    THEN Upd(fetched[j], call.kwargs) ELSE fetched[j]]
    IN  IF primary_key = "" THEN Table = want ELSE SameBag(Table, want)

LoopHead == IF call.op = "delete" THEN "DELETE FROM" ELSE "UPDATE"
EngineErrors == {"OperationalError", "IntegrityError"}

\* What the statements for the first n records make of rows, each statement
\* reaching the rows equal to its record.
RECURSIVE AfterFirst(_, _)
AfterFirst(rows, n) ==
    IF n = 0 THEN rows
    ELSE LET before == AfterFirst(rows, n - 1)
             rec == records[n]
         IN  IF call.op = "delete"
             THEN SelectSeq(before, LAMBDA r : r # rec)
             ELSE [j \in 1..Len(before) |->
                      IF before[j] = rec THEN Upd(rec, call.kwargs) ELSE before[j]]

LoopFailed ==
    /\ pc = "returned" /\ call.op \in {"delete", "update"}
    /\ result.status # "ok" /\ records # <<>>

\* C9: the statements of a delete or update run one per matching record, in
\* match order, each committed on its own; when the k-th fails its error
\* reaches the caller, what statements 1..k-1 did stays in the table, and
\* no statement is issued for the records after the k-th.
C9_FailurePartway ==
    /\ [](LoopFailed =>
            /\ pos \in 1..Len(records)
            /\ result.status \in EngineErrors
            /\ Count(io, LoopHead) = pos
            /\ Count(io, "commit") = pos - 1
            /\ Count(io, "connect") = pos + 1 /\ Count(io, "close") = pos + 1
            /\ Len(rowcounts) = pos /\ rowcounts[pos] = 0
            /\ (AllQuoteFree(SubSeq(records, 1, pos - 1))
                /\ ValuesFree(call.kwargs, "'"))
                  => SameBag(Table, AfterFirst(fetched, pos - 1)))
    /\ [][(pc \in {"delete", "update"} /\ pc' = "returned" /\ result'.status # "ok")
            => db' = db]_vars

\* The second statement failed after the first changed the table.
C9_Witness ==
    /\ LoopFailed /\ pos = 2
    /\ rowcounts = <<1, 0>>
    /\ Table # fetched

Has(seq, x) == \E j \in 1..Len(seq) : seq[j] = x
Inserted == {e \in 1..Len(others) : others[e].op = "insert"}
Removed == {e \in 1..Len(others) : others[e].op = "delete"}

\* The other caller took the row of event e out again.
TakenBack(e) == \E d \in Removed : d > e /\ others[d].row = others[e].row
\* The other caller put the row of event e back before statement m.
PutBack(e, m) ==
    \E a \in Inserted : a > e /\ others[a].row = others[e].row /\ others[a].at < m
\* A DELETE for a record equal to the row of event e was still to come.
Awaited(e) ==
    \E m \in (others[e].at + 1)..Len(records) : records[m] = others[e].row
\* The row of insert event e outlives the delete.
Survives(e) == ~Awaited(e) /\ ~TakenBack(e)

ConcDeleteReturned == pc = "returned" /\ call.op = "delete" /\ others # <<>>

\* A snapshotted record the other caller removed first: its DELETE finds no
\* row and does not raise.
GoneIsHarmless ==
    \A e \in Removed : \A m \in (others[e].at + 1)..Len(rowcounts) :
        (records[m] = others[e].row /\ ~PutBack(e, m)) =>
            /\ rowcounts[m] = 0
            /\ ~(result.status # "ok" /\ pos = m)

====
